---- MODULE Spec2Model ----
(***************************************************************************)
(* A model of src/CFOHelper.tsx: the CFOHelper component (three slider     *)
(* inputs, a usage counter persisted in localStorage, the chart export)    *)
(* and its forecast engine generateForecast with the aggregate reducers.   *)
(*                                                                         *)
(* Two specifications are given.  Spec is the component: construction,     *)
(* the mount effects, slider changes, the asynchronous export and the      *)
(* closing of a session.  SpecForecast runs generateForecast one forEach   *)
(* iteration at a time on inputs drawn from a bounded set of integers      *)
(* (zero and negative ones included) and then applies the reducers.        *)
(***************************************************************************)
EXTENDS Integers, Sequences, FiniteSets, TLC

VARIABLES
  spending, pricing, hiring,   \* useState values, lines 14-16
  usageCount,                  \* useState value, line 17 (a JS number)
  storage,                     \* localStorage entry 'cfo-helper-usage'
  mounted,                     \* TRUE once the mount effects have run
  index,                       \* forEach position inside generateForecast
  currentCustomers,            \* line 39
  currentHeadcount,            \* line 40
  data,                        \* line 37, the records pushed so far
  summary,                     \* lines 75-78, the aggregates
  capturing,                   \* html2canvas promises in flight
  captureCalls,                \* calls made to html2canvas
  downloads,                   \* link.click() calls
  errorsLogged,                \* console.error calls
  missing,                     \* history: exports that found no chart panel
  rejected,                    \* history: exports whose capture rejected
  changes,                     \* history: input changes in this session
  startStorage,                \* history: storage when the session began
  sessions                     \* history: sessions opened so far

vars == <<spending, pricing, hiring, usageCount, storage, mounted, index,
          currentCustomers, currentHeadcount, data, summary, capturing,
          captureCalls, downloads, errorsLogged, missing, rejected, changes,
          startStorage, sessions>>

shellVars == <<usageCount, storage, mounted, capturing, captureCalls,
               downloads, errorsLogged, missing, rejected, changes,
               startStorage, sessions>>

engineVars == <<index, currentCustomers, currentHeadcount, data, summary>>

(***************************************************************************)
(* Bounds of the model.                                                    *)
(***************************************************************************)
MaxEngineSteps == 2      \* engine inputs: spending and pricing steps each way
MaxEngineHiring == 16    \* engine inputs: hiring in -16..16
MaxSliderSteps == 1      \* slider positions above the minimum, per slider
MaxStored == 5           \* well-formed stored counters 0..5
MaxChanges == 2          \* input changes per session
MaxSessions == 2         \* sessions opened
MaxExports == 2          \* export clicks

(***************************************************************************)
(* Program constants.                                                      *)
(***************************************************************************)
DefaultSpending == 50000
DefaultPricing == 100
DefaultHiring == 10
SpendingMin == 10000
SpendingStep == 5000
PricingMin == 10
PricingStep == 10
HiringMin == 1
StartingCustomers == 100
GrowthPercent == 15
HiringPercent == 20
CostPerEmployee == 5000
MonthsPerYear == 12

(***************************************************************************)
(* The forecast engine.                                                    *)
(***************************************************************************)
monthsShort ==
  <<"Jan", "Feb", "Mar", "Apr", "May", "Jun", "Jul", "Aug", "Sep", "Oct", "Nov">>

months ==
  <<"Jan", "Feb", "Mar", "Apr", "May", "Jun", "Jul", "Aug", "Sep", "Oct", "Nov",
    "Dec">>

\* Math.floor(x * 0.15) and Math.floor(x * 0.2): the factor is a double, the
\* product is rounded to a double and floored.  For every integer x with
\* |x| <= 2000 the floored double product equals the exact floor of
\* x * percent / 100, which is what \div computes (it rounds down).
MathFloorPercent(x, percent) == (x * percent) \div 100

\* Math.floor(growthRate) * currentCustomers instead of line 45
customerGrowthFloorRate(customers) == customers * (GrowthPercent \div 100)

customerGrowth(customers) == MathFloorPercent(customers, GrowthPercent)

revenueOf(customers, price) == customers * price

employeeCost(headcount) == headcount * CostPerEmployee

totalExpensesOf(spend, headcount) == spend + employeeCost(headcount)

isHiringMonth(i) == i % 3 = 0 /\ i > 0

hiringStepCompounding(initial, current) == MathFloorPercent(current, HiringPercent)

\* line 57 reads the hiring input, not the current headcount
hiringStep(initial, current) == MathFloorPercent(initial, HiringPercent)

cashFlowOfMutant(revenue, expenses) == revenue + expenses

cashFlowOf(revenue, expenses) == revenue - expenses

\* One run of the forEach callback with the expense computed after the
\* hiring step instead of before it.
forEachBodyLate(st, i, spend, price, initial) ==
  LET customers == st.customers + customerGrowth(st.customers)
      revenue == revenueOf(customers, price)
      headcount == IF isHiringMonth(i)
                   THEN st.headcount + hiringStep(initial, st.headcount)
                   ELSE st.headcount
      expenses == totalExpensesOf(spend, headcount)
  IN [customers |-> customers,
      headcount |-> headcount,
      data |-> Append(st.data,
                      [month |-> months[i + 1], revenue |-> revenue,
                       expenses |-> expenses,
                       cashFlow |-> cashFlowOf(revenue, expenses),
                       headcount |-> headcount])]

\* One run of the forEach callback with the revenue computed before the
\* growth of the month is applied.
forEachBodyRevenueFirst(st, i, spend, price, initial) ==
  LET revenue == revenueOf(st.customers, price)
      customers == st.customers + customerGrowth(st.customers)
      expenses == totalExpensesOf(spend, st.headcount)
      headcount == IF isHiringMonth(i)
                   THEN st.headcount + hiringStep(initial, st.headcount)
                   ELSE st.headcount
  IN [customers |-> customers,
      headcount |-> headcount,
      data |-> Append(st.data,
                      [month |-> months[i + 1], revenue |-> revenue,
                       expenses |-> expenses,
                       cashFlow |-> cashFlowOf(revenue, expenses),
                       headcount |-> headcount])]

\* One run of the forEach callback, lines 42-69, at zero-based index i.
forEachBody(st, i, spend, price, initial) ==
  LET customers == st.customers + customerGrowth(st.customers)
      revenue == revenueOf(customers, price)
      expenses == totalExpensesOf(spend, st.headcount)
      headcount == IF isHiringMonth(i)
                   THEN st.headcount + hiringStep(initial, st.headcount)
                   ELSE st.headcount
  IN [customers |-> customers,
      headcount |-> headcount,
      data |-> Append(st.data,
                      [month |-> months[i + 1], revenue |-> revenue,
                       expenses |-> expenses,
                       cashFlow |-> cashFlowOf(revenue, expenses),
                       headcount |-> headcount])]

loopStart(initial) ==
  [customers |-> StartingCustomers, headcount |-> initial, data |-> <<>>]

RECURSIVE forEachFrom(_, _, _, _, _)
forEachFrom(st, i, spend, price, initial) ==
  IF i >= Len(months) THEN st
  ELSE forEachFrom(forEachBody(st, i, spend, price, initial), i + 1,
                   spend, price, initial)

generateForecast(spend, price, initial) ==
  forEachFrom(loopStart(initial), 0, spend, price, initial)

\* Array.prototype.reduce((sum, item) => sum + item.<field>, 0)
RECURSIVE reduceSum(_, _)
reduceSum(records, field) ==
  IF records = <<>> THEN 0
  ELSE reduceSum(SubSeq(records, 1, Len(records) - 1), field)
       + records[Len(records)][field]

totalRevenue(records) == reduceSum(records, "revenue")

totalExpenses(records) == reduceSum(records, "expenses")

netCashFlow(records) == totalRevenue(records) - totalExpenses(records)

\* totalExpenses / 12 is a JS number; it is kept as whole + twelfths/12.
burnRate(records) ==
  [whole |-> totalExpenses(records) \div MonthsPerYear,
   twelfths |-> totalExpenses(records) % MonthsPerYear]

noSummary ==
  [done |-> FALSE, totalRevenue |-> 0, totalExpenses |-> 0, netCashFlow |-> 0,
   burnRate |-> [whole |-> 0, twelfths |-> 0]]

summaryOf(records) ==
  [done |-> TRUE, totalRevenue |-> totalRevenue(records),
   totalExpenses |-> totalExpenses(records),
   netCashFlow |-> netCashFlow(records), burnRate |-> burnRate(records)]

(***************************************************************************)
(* JS numbers and strings of the usage counter.  A number is NaN or an     *)
(* integer; a string is a sequence of one-character strings.               *)
(***************************************************************************)
NaN == [nan |-> TRUE, int |-> 0]

Num(n) == [nan |-> FALSE, int |-> n]

\* usageCount + 1 (line 29): NaN + 1 is NaN
plusOne(x) == IF x.nan THEN NaN ELSE Num(x.int + 1)

digitChars == <<"0", "1", "2", "3", "4", "5", "6", "7", "8", "9">>

isDigit(c) == \E d \in 1..Len(digitChars) : digitChars[d] = c

digitValue(c) == (CHOOSE d \in 1..Len(digitChars) : digitChars[d] = c) - 1

RECURSIVE digitsOf(_)
digitsOf(n) ==
  IF n < 10 THEN <<digitChars[n + 1]>>
  ELSE Append(digitsOf(n \div 10), digitChars[(n % 10) + 1])

\* Number.prototype.toString(), line 31
toString(x) ==
  IF x.nan THEN <<"N", "a", "N">>
  ELSE IF x.int < 0 THEN <<"-">> \o digitsOf(0 - x.int)
  ELSE digitsOf(x.int)

RECURSIVE skipWhite(_)
skipWhite(str) ==
  IF str # <<>> /\ Head(str) = " " THEN skipWhite(Tail(str)) ELSE str

RECURSIVE leadingDigits(_)
leadingDigits(str) ==
  IF str # <<>> /\ isDigit(Head(str))
  THEN <<Head(str)>> \o leadingDigits(Tail(str))
  ELSE <<>>

RECURSIVE decimalValue(_)
decimalValue(digits) ==
  IF digits = <<>> THEN 0
  ELSE 10 * decimalValue(SubSeq(digits, 1, Len(digits) - 1))
       + digitValue(digits[Len(digits)])

\* parseInt(str, 10), line 23: leading white space is skipped, one sign is
\* read, then the longest run of digits; no digit at all gives NaN.
parseInt(str) ==
  LET s == skipWhite(str)
      signed == s # <<>> /\ Head(s) \in {"-", "+"}
      negative == s # <<>> /\ Head(s) = "-"
      digits == leadingDigits(IF signed THEN Tail(s) ELSE s)
  IN IF digits = <<>> THEN NaN
     ELSE Num(IF negative THEN 0 - decimalValue(digits)
              ELSE decimalValue(digits))

\* localStorage: getItem gives null for an absent key
absent == [has |-> FALSE, str |-> <<>>]

stored(str) == [has |-> TRUE, str |-> str]

\* `if (savedCount)`, line 22: null and the empty string are falsy
truthy(item) == item.has /\ item.str # <<>>

\* The load effect, lines 20-25: the setUsageCount calls it queues.
loadEffectOnce(item) ==
  IF truthy(item) /\ ~parseInt(item.str).nan THEN <<parseInt(item.str)>>
  ELSE <<>>

loadEffect(item) == IF truthy(item) THEN <<parseInt(item.str)>> ELSE <<>>

\* The update effect, lines 28-32, run in a render that saw `count`: the
\* value it passes to setUsageCount and writes to localStorage.
updateEffectKeep(count) == count

updateEffect(count) == plusOne(count)

\* React applies the queued setUsageCount(value) calls in order.
applyUpdates(count, queue) == IF queue = <<>> THEN count ELSE queue[Len(queue)]

\* The catch branch of exportReport, lines 103-105.
catchBranchSilent(logged, clicked) == [errorsLogged |-> logged, downloads |-> clicked]

catchBranch(logged, clicked) == [errorsLogged |-> logged + 1, downloads |-> clicked]

\* The path of exportReport when querySelector gives null, lines 90-91, 106.
noPanelBranchClicks(logged, clicked) ==
  [errorsLogged |-> logged, downloads |-> clicked + 1]

noPanelBranch(logged, clicked) == [errorsLogged |-> logged, downloads |-> clicked]

\* The rest of the try block once html2canvas resolved, lines 99-102.
resolvedBranch(logged, clicked) ==
  [errorsLogged |-> logged, downloads |-> clicked + 1]

(***************************************************************************)
(* Inputs of the model.                                                    *)
(***************************************************************************)
SliderSpending == {SpendingMin + SpendingStep * k : k \in 0..MaxSliderSteps}

SliderPricing == {PricingMin + PricingStep * k : k \in 0..MaxSliderSteps}

SliderHiring == {HiringMin + k : k \in 0..MaxSliderSteps}

WellFormedStored == {toString(Num(n)) : n \in 0..MaxStored}

MalformedStored ==
  {<<"a", "b", "c">>, <<"N", "a", "N">>, <<"x", "7">>, <<".", "5">>, <<"-">>, <<>>}

InitialStorage ==
  {absent} \cup {stored(s) : s \in WellFormedStored \cup MalformedStored}

EngineSpending ==
  {SpendingStep * k : k \in (0 - MaxEngineSteps)..MaxEngineSteps}
    \cup {DefaultSpending}

EnginePricing ==
  {PricingStep * k : k \in (0 - MaxEngineSteps)..MaxEngineSteps}
    \cup {DefaultPricing}

EngineHiring == (0 - MaxEngineHiring)..MaxEngineHiring

(***************************************************************************)
(* The component.                                                          *)
(***************************************************************************)
\* A render runs generateForecast and the reducers, lines 74-78.
Render(spend, price, initial) ==
  \E st \in {generateForecast(spend, price, initial)} :
     /\ index' = Len(months)
     /\ currentCustomers' = st.customers
     /\ currentHeadcount' = st.headcount
     /\ data' = st.data
     /\ summary' = summaryOf(st.data)

\* The component as constructed and rendered once, effects not yet run.
Init ==
  /\ spending = DefaultSpending
  /\ pricing = DefaultPricing
  /\ hiring = DefaultHiring
  /\ usageCount = Num(0)
  /\ storage \in InitialStorage
  /\ startStorage = storage
  /\ mounted = FALSE
  /\ LET st == generateForecast(DefaultSpending, DefaultPricing, DefaultHiring)
     IN /\ index = Len(months)
        /\ currentCustomers = st.customers
        /\ currentHeadcount = st.headcount
        /\ data = st.data
        /\ summary = summaryOf(st.data)
  /\ capturing = 0
  /\ captureCalls = 0
  /\ downloads = 0
  /\ errorsLogged = 0
  /\ missing = 0
  /\ rejected = 0
  /\ changes = 0
  /\ sessions = 1

\* Both effects run after the first render, each seeing usageCount of that
\* render; their setUsageCount calls are then applied in order.
Mount ==
  /\ ~mounted
  /\ mounted' = TRUE
  /\ usageCount' = applyUpdates(usageCount,
                      loadEffect(storage) \o <<updateEffect(usageCount)>>)
  /\ storage' = stored(toString(updateEffect(usageCount)))
  /\ UNCHANGED <<spending, pricing, hiring, engineVars, capturing,
                 captureCalls, downloads, errorsLogged, missing, rejected,
                 changes, startStorage, sessions>>

\* What every slider change does after its own setState: the render, then
\* the update effect (its dependency changed).
AfterChange(spend, price, initial) ==
  /\ mounted
  /\ changes < MaxChanges
  /\ changes' = changes + 1
  /\ Render(spend, price, initial)
  /\ usageCount' = applyUpdates(usageCount, <<updateEffect(usageCount)>>)
  /\ storage' = stored(toString(updateEffect(usageCount)))
  /\ UNCHANGED <<mounted, capturing, captureCalls, downloads, errorsLogged,
                 missing, rejected, startStorage, sessions>>

ChangeSpending ==
  \E v \in SliderSpending \ {spending} :
    /\ spending' = v
    /\ UNCHANGED <<pricing, hiring>>
    /\ AfterChange(v, pricing, hiring)

ChangePricing ==
  \E v \in SliderPricing \ {pricing} :
    /\ pricing' = v
    /\ UNCHANGED <<spending, hiring>>
    /\ AfterChange(spending, v, hiring)

ChangeHiring ==
  \E v \in SliderHiring \ {hiring} :
    /\ hiring' = v
    /\ UNCHANGED <<spending, pricing>>
    /\ AfterChange(spending, pricing, v)

\* exportReport up to its await, lines 89-97, when the panel is found.
ExportStart ==
  /\ mounted
  /\ captureCalls + missing < MaxExports
  /\ capturing' = capturing + 1
  /\ captureCalls' = captureCalls + 1
  /\ UNCHANGED <<spending, pricing, hiring, engineVars, usageCount, storage,
                 mounted, downloads, errorsLogged, missing, rejected, changes,
                 startStorage, sessions>>

\* exportReport when querySelector('.charts-panel') gives null.
ExportNoPanel ==
  /\ mounted
  /\ captureCalls + missing < MaxExports
  /\ missing' = missing + 1
  /\ errorsLogged' = noPanelBranch(errorsLogged, downloads).errorsLogged
  /\ downloads' = noPanelBranch(errorsLogged, downloads).downloads
  /\ UNCHANGED <<spending, pricing, hiring, engineVars, usageCount, storage,
                 mounted, capturing, captureCalls, rejected, changes,
                 startStorage, sessions>>

\* html2canvas resolved: the link is built and clicked.
ExportResolved ==
  /\ capturing > 0
  /\ capturing' = capturing - 1
  /\ errorsLogged' = resolvedBranch(errorsLogged, downloads).errorsLogged
  /\ downloads' = resolvedBranch(errorsLogged, downloads).downloads
  /\ UNCHANGED <<spending, pricing, hiring, engineVars, usageCount, storage,
                 mounted, captureCalls, missing, rejected, changes,
                 startStorage, sessions>>

\* html2canvas (or canvas.toDataURL) threw: the catch branch runs.
ExportRejected ==
  /\ capturing > 0
  /\ capturing' = capturing - 1
  /\ rejected' = rejected + 1
  /\ errorsLogged' = catchBranch(errorsLogged, downloads).errorsLogged
  /\ downloads' = catchBranch(errorsLogged, downloads).downloads
  /\ UNCHANGED <<spending, pricing, hiring, engineVars, usageCount, storage,
                 mounted, captureCalls, missing, changes, startStorage,
                 sessions>>

\* The page is closed and opened again: the component is constructed anew
\* (lines 14-17) and rendered; localStorage is all that is kept.
NewSession ==
  /\ mounted
  /\ capturing = 0
  /\ sessions < MaxSessions
  /\ sessions' = sessions + 1
  /\ spending' = DefaultSpending
  /\ pricing' = DefaultPricing
  /\ hiring' = DefaultHiring
  /\ usageCount' = Num(0)
  /\ mounted' = FALSE
  /\ changes' = 0
  /\ startStorage' = storage
  /\ Render(DefaultSpending, DefaultPricing, DefaultHiring)
  /\ UNCHANGED <<storage, capturing, captureCalls, downloads, errorsLogged,
                 missing, rejected>>

Next ==
  \/ Mount
  \/ ChangeSpending
  \/ ChangePricing
  \/ ChangeHiring
  \/ ExportStart
  \/ ExportNoPanel
  \/ ExportResolved
  \/ ExportRejected
  \/ NewSession

Spec == Init /\ [][Next]_vars

(***************************************************************************)
(* generateForecast run one iteration at a time on bounded inputs.         *)
(***************************************************************************)
InitForecast ==
  /\ spending \in EngineSpending
  /\ pricing \in EnginePricing
  /\ hiring \in EngineHiring
  /\ index = 0
  /\ currentCustomers = loopStart(hiring).customers
  /\ currentHeadcount = loopStart(hiring).headcount
  /\ data = loopStart(hiring).data
  /\ summary = noSummary
  /\ usageCount = Num(0)
  /\ storage = absent
  /\ startStorage = absent
  /\ mounted = FALSE
  /\ capturing = 0
  /\ captureCalls = 0
  /\ downloads = 0
  /\ errorsLogged = 0
  /\ missing = 0
  /\ rejected = 0
  /\ changes = 0
  /\ sessions = 1

ForEachStep ==
  /\ index < Len(months)
  /\ \E st \in {forEachBody([customers |-> currentCustomers,
                             headcount |-> currentHeadcount, data |-> data],
                            index, spending, pricing, hiring)} :
        /\ currentCustomers' = st.customers
        /\ currentHeadcount' = st.headcount
        /\ data' = st.data
  /\ index' = index + 1
  /\ UNCHANGED <<spending, pricing, hiring, summary, shellVars>>

Aggregate ==
  /\ index = Len(months)
  /\ ~summary.done
  /\ summary' = summaryOf(data)
  /\ UNCHANGED <<spending, pricing, hiring, index, currentCustomers,
                 currentHeadcount, data, shellVars>>

NextForecast ==
  \/ ForEachStep
  \/ Aggregate

SpecForecast == InitForecast /\ [][NextForecast]_vars

(***************************************************************************)
(* Properties.                                                             *)
(***************************************************************************)
\* A stored item that is the decimal text of an integer.
wellFormed(item) ==
  /\ item.has
  /\ ~parseInt(item.str).nan
  /\ toString(parseInt(item.str)) = item.str

malformed(item) == item.has /\ ~wellFormed(item)

headcounts == [i \in 1..Len(data) |-> data[i].headcount]

\* C1: in a session that began with the well-formed integer n in storage,
\* once the startup effects have run and k inputs have changed, the counter
\* shown and the stored value both are n + k (so the stored value is never
\* below the one the session began with).
C1_CounterContinuesFromStored ==
  (mounted /\ wellFormed(startStorage)) =>
     /\ usageCount = Num(parseInt(startStorage.str).int + changes)
     /\ storage = stored(toString(Num(parseInt(startStorage.str).int + changes)))

\* C2: in a session that began with no stored counter, the counter equals
\* the number of input changes made so far, at every moment.
C2_CounterCountsChangesOnly ==
  (~startStorage.has) => usageCount = Num(changes)

\* C10: in a session that began with a malformed stored value, the counter
\* is never NaN and counts from 0: after k input changes it is k.
C10_MalformedFallsBackToZero ==
  malformed(startStorage) => (~usageCount.nan /\ usageCount = Num(changes))

C4_ExpensesBeforeHiring ==
  \A i \in 1..Len(data) :
    /\ data[i].expenses =
         spending + 5000 * (IF i = 1 THEN hiring ELSE data[i - 1].headcount)
    /\ (i - 1 \in {3, 6, 9}) =>
         data[i].expenses =
           spending + 5000 * (data[i].headcount - ((hiring * 2) \div 10))

C4_Witness ==
  /\ summary.done
  /\ hiring = 10
  /\ spending = 50000
  /\ data[4].headcount = 12
  /\ data[4].expenses = 100000
  /\ data[5].expenses = 110000

\* c(0) = 100, c(k+1) = c(k) + floor(c(k) * 15 / 100)
RECURSIVE compounded(_)
compounded(k) ==
  IF k = 0 THEN 100
  ELSE LET before == compounded(k - 1)
       IN before + ((before * 15) \div 100)

\* C5: the revenue of record i is the price times c(i+1): the growth of a
\* month is applied before its revenue, from a base of 100 whatever the
\* inputs are.
C5_GrowthBeforeRevenue ==
  \A i \in 1..Len(data) : data[i].revenue = pricing * compounded(i)

C5_Witness ==
  /\ summary.done
  /\ pricing = 100
  /\ hiring < 0
  /\ data[1].revenue = 11500
  /\ data[12].revenue = 52300

\* C6: every growth step raises the customer count by at least one, and for
\* a positive price each record's revenue exceeds the previous record's.
C6_StrictGrowth ==
  /\ [][index' = index + 1 => currentCustomers' >= currentCustomers + 1]_vars
  /\ [](pricing > 0 =>
          \A i \in 2..Len(data) : data[i].revenue > data[i - 1].revenue)

C6_Witness ==
  /\ summary.done
  /\ pricing > 0
  /\ currentCustomers = 523
  /\ data[12].revenue > data[11].revenue

RECURSIVE sumOver(_, _)
sumOver(f, n) == IF n = 0 THEN 0 ELSE sumOver(f, n - 1) + f[n]

\* C7: every record has cashFlow = revenue - expenses; the totals are the
\* sums over the 12 records, netCashFlow is their difference and the sum of
\* the cash flows, and 12 times burnRate is totalExpenses.
C7_Reconciliation ==
  /\ \A i \in 1..Len(data) : data[i].cashFlow = data[i].revenue - data[i].expenses
  /\ summary.done =>
       /\ Len(data) = 12
       /\ summary.totalRevenue =
            sumOver([i \in 1..12 |-> data[i].revenue], 12)
       /\ summary.totalExpenses =
            sumOver([i \in 1..12 |-> data[i].expenses], 12)
       /\ summary.netCashFlow = summary.totalRevenue - summary.totalExpenses
       /\ summary.netCashFlow =
            sumOver([i \in 1..12 |-> data[i].cashFlow], 12)
       /\ summary.burnRate.twelfths \in 0..11
       /\ 12 * summary.burnRate.whole + summary.burnRate.twelfths
            = summary.totalExpenses

C7_Witness ==
  /\ summary.done
  /\ spending = 50000 /\ pricing = 100 /\ hiring = 10
  /\ summary.totalRevenue = 327600
  /\ summary.totalExpenses = 1350000
  /\ summary.netCashFlow = 0 - 1022400
  /\ summary.burnRate = [whole |-> 112500, twelfths |-> 0]

\* C8: for every integer input the run ends with exactly 12 records labelled
\* Jan..Dec in order; with zero spending and zero headcount every record has
\* expenses 0 and headcount 0.
C8_TwelveRecords ==
  /\ Len(data) = index
  /\ index <= 12
  /\ \A i \in 1..Len(data) :
       data[i].month = <<"Jan", "Feb", "Mar", "Apr", "May", "Jun", "Jul",
                         "Aug", "Sep", "Oct", "Nov", "Dec">>[i]
  /\ summary.done => Len(data) = 12
  /\ (~summary.done) => ENABLED NextForecast
  /\ (spending = 0 /\ hiring = 0) =>
       \A i \in 1..Len(data) : data[i].expenses = 0 /\ data[i].headcount = 0

C8_Witness ==
  /\ summary.done
  /\ Len(data) = 12
  /\ spending = 0
  /\ hiring = 0
  /\ pricing < 0

shellState == <<spending, pricing, hiring, usageCount, storage, data, summary>>

\* C9 as claimed: every failed export (no chart panel, or a rejected
\* capture) logs one error, downloads nothing, starts no new capture and
\* leaves the inputs, the counter and the forecast as they were.
C9_EveryFailureLogged ==
  [][(missing' + rejected' > missing + rejected) =>
        /\ errorsLogged' = errorsLogged + 1
        /\ downloads' = downloads
        /\ captureCalls' = captureCalls
        /\ shellState' = shellState]_vars

\* C9 as amended: a rejected capture logs one error, an export that finds no
\* chart panel logs nothing; either way nothing is downloaded, no new
\* capture starts, and the inputs, the counter and the forecast stay as
\* they were.
C9_FailureHandling ==
  [][/\ (rejected' > rejected) => errorsLogged' = errorsLogged + 1
     /\ (missing' > missing) => errorsLogged' = errorsLogged
     /\ (missing' + rejected' > missing + rejected) =>
          /\ downloads' = downloads
          /\ captureCalls' = captureCalls
          /\ shellState' = shellState]_vars

C9_Witness ==
  /\ missing > 0
  /\ rejected > 0
  /\ errorsLogged = rejected
  /\ downloads = 0
  /\ changes > 0

====
